---- MODULE Spec2Model ----
(***************************************************************************)
(* booktracker: the validated book record (src/src/schema.py) and the      *)
(* reading statistics engine (src/src/stats.py).                           *)
(*                                                                         *)
(* Numbers that Python keeps as floats rounded to 2 decimals are kept here *)
(* as integers counting hundredths (0.46 is 46); the rounding is done on   *)
(* the exact quotient.  A value that is either a number or Python's ""     *)
(* (or None) is a record [empty, v].                                       *)
(***************************************************************************)
EXTENDS Integers, Sequences, FiniteSets, TLC

VARIABLES books, ret

vars == <<books, ret>>

(***************************************************************************)
(* Bounds of the model.                                                    *)
(***************************************************************************)
MaxBooks == 2

(***************************************************************************)
(* Values: a number or the empty string / None.                            *)
(***************************************************************************)
Num(n) == [empty |-> FALSE, v |-> n]

Empty == [empty |-> TRUE, v |-> 0]

\* Python truthiness of an Optional[int]: None and 0 are false.
Truthy(x) == ~x.empty /\ x.v # 0

(***************************************************************************)
(* Calendar dates (datetime.date): [year, month, day]; NoDate is the       *)
(* unset date (None / "").                                                 *)
(***************************************************************************)
Date(y, m, d) == [year |-> y, month |-> m, day |-> d]

NoDate == Date(0, 0, 0)

IsLeap(y) == (y % 4 = 0) /\ ((y % 100 # 0) \/ (y % 400 = 0))

DaysInMonth(y, m) ==
    IF m = 2 THEN (IF IsLeap(y) THEN 29 ELSE 28)
    ELSE IF m \in {4, 6, 9, 11} THEN 30 ELSE 31

RECURSIVE DaysBeforeMonth(_, _)
DaysBeforeMonth(y, m) ==
    IF m <= 1 THEN 0 ELSE DaysBeforeMonth(y, m - 1) + DaysInMonth(y, m - 1)

DaysBeforeYear(y) ==
    (y - 1) * 365 + ((y - 1) \div 4) - ((y - 1) \div 100) + ((y - 1) \div 400)

\* date.toordinal(): the proleptic Gregorian day number.
Ordinal(d) == DaysBeforeYear(d.year) + DaysBeforeMonth(d.year, d.month) + d.day

IsCalendarDate(y, m, d) ==
    /\ y \in 1..9999
    /\ m \in 1..12
    /\ d \in 1..DaysInMonth(y, m)

(***************************************************************************)
(* round(num / den, 2) in hundredths, for den > 0 and num >= 0.  Python    *)
(* rounds a tie to the even neighbour; where the exact quotient is a tie   *)
(* that the float does not represent, the float decides, and no call of    *)
(* the state machines below has such a quotient.                           *)
(***************************************************************************)
Round2(num, den) ==
    LET q == (num * 100) \div den
        r == (num * 100) % den
    IN  IF 2 * r < den THEN q
        ELSE IF 2 * r > den THEN q + 1
        ELSE IF q % 2 = 0 THEN q ELSE q + 1

RECURSIVE SumSeq(_)
SumSeq(s) == IF s = <<>> THEN 0 ELSE Head(s) + SumSeq(Tail(s))

\* round(mean(xs), 2) for a non-empty list of integers.
RoundMean(xs) == Round2(SumSeq(xs), Len(xs))

\* [f(x) for x in s]
MapSeq(s, f(_)) == [i \in 1..Len(s) |-> f(s[i])]

(***************************************************************************)
(* Strings are sequences of one-character strings, so that a pattern can   *)
(* look at their characters: "2024-03-01" is                               *)
(* <<"2","0","2","4","-","0","3","-","0","1">> and "" is <<>>.             *)
(***************************************************************************)
Digits == <<"0", "1", "2", "3", "4", "5", "6", "7", "8", "9">>

IsDigit(c) == \E i \in 1..10 : Digits[i] = c

DigitVal(c) == (CHOOSE i \in 1..10 : Digits[i] = c) - 1

AllDigits(s) == \A i \in 1..Len(s) : IsDigit(s[i])

RECURSIVE IntOf(_)
IntOf(s) == IF s = <<>> THEN 0 ELSE IntOf(SubSeq(s, 1, Len(s) - 1)) * 10 + DigitVal(s[Len(s)])

TwoDigits(n) == <<Digits[(n \div 10) + 1], Digits[(n % 10) + 1]>>

\* date.isoformat(): YYYY-MM-DD; the unset date is the empty string.
isoformat(d) ==
    IF d = NoDate THEN <<>>
    ELSE TwoDigits(d.year \div 100) \o TwoDigits(d.year % 100) \o <<"-">>
         \o TwoDigits(d.month) \o <<"-">> \o TwoDigits(d.day)

(***************************************************************************)
(* schema.py: Book                                                         *)
(***************************************************************************)
Status == {"TBR", "IN_PROGRESS", "COMPLETED"}

\* re.match("[0-9]{4}-[0-9]{2}-[0-9]{2}", value): the pattern is matched at
\* the start of the string and nothing is asked of what follows it.
re_match_date(value) ==
    /\ Len(value) >= 10
    /\ AllDigits(SubSeq(value, 1, 4))
    /\ value[5] = "-"
    /\ AllDigits(SubSeq(value, 6, 7))
    /\ value[8] = "-"
    /\ AllDigits(SubSeq(value, 9, 10))

\* An error of a ValidationError: the field it is about ("" for the model
\* validator) and the message (without pydantic's prefix "Value error, ").
Error(loc, msg) == [loc |-> loc, msg |-> msg]

DateFormatMsg == "dates must be formatted as 'YYYY-MM-DD'."

DateOrderMsg == "date_completed must be after date_started."

StatusMsg == "Input should be 'TBR', 'IN_PROGRESS' or 'COMPLETED'"

\* Book.validate_date (mode="before") on the field loc: the errors it adds.
validate_date(loc, value) ==
    IF value # <<>>
    THEN IF re_match_date(value) THEN <<>> ELSE <<Error(loc, DateFormatMsg)>>
    ELSE <<>>

\* status: Status = Status.TBR; Unset stands for a construction that passes
\* no status, which takes the default without validating it.
StatusDefault == "TBR"

Unset == "(no status passed)"

\* A slip in the field: status declared as str, any string is taken.
validate_status_str(status) == <<>>

\* The Status enumeration on the status given.
validate_status(status) ==
    IF status \in Status THEN <<>> ELSE <<Error("status", StatusMsg)>>

(***************************************************************************)
(* datetime.fromisoformat(s) of Python 3.11 on a string that starts with   *)
(* dddd-dd-dd (the field validator has passed it): the date, then nothing  *)
(* or one separator character and a time HH, HHMM or HH:MM.  Defined for   *)
(* time parts of at most 5 characters.  [error, ordinal, minutes].         *)
(***************************************************************************)
fromisoformat(s) ==
    LET y == IntOf(SubSeq(s, 1, 4))
        m == IntOf(SubSeq(s, 6, 7))
        d == IntOf(SubSeq(s, 9, 10))
        t == SubSeq(s, 12, Len(s))
        shape == \/ Len(s) = 10
                 \/ Len(t) = 2 /\ AllDigits(t)
                 \/ Len(t) = 4 /\ AllDigits(t)
                 \/ Len(t) = 5 /\ AllDigits(SubSeq(t, 1, 2)) /\ t[3] = ":"
                              /\ AllDigits(SubSeq(t, 4, 5))
        hh == IF Len(s) = 10 THEN 0 ELSE IntOf(SubSeq(t, 1, 2))
        mm == IF Len(s) = 10 \/ Len(t) = 2 THEN 0
              ELSE IF Len(t) = 4 THEN IntOf(SubSeq(t, 3, 4)) ELSE IntOf(SubSeq(t, 4, 5))
        fail(msg) == [error |-> msg, ordinal |-> 0, minutes |-> 0]
    IN  IF ~shape THEN fail("Invalid isoformat string")
        ELSE IF y = 0 THEN fail("year 0 is out of range")
        ELSE IF m \notin 1..12 THEN fail("month must be in 1..12")
        ELSE IF d \notin 1..DaysInMonth(y, m) THEN fail("day is out of range for month")
        ELSE IF hh > 23 THEN fail("hour must be in 0..23")
        ELSE IF mm > 59 THEN fail("minute must be in 0..59")
        ELSE [error |-> "", ordinal |-> Ordinal(Date(y, m, d)), minutes |-> hh * 60 + mm]

\* A slip in validate_date_completed: > in the place of >=.
validate_date_completed_strictly_after(date_started, date_completed) ==
    IF date_started # <<>> /\ date_completed # <<>>
    THEN LET dc == fromisoformat(date_completed)
             ds == fromisoformat(date_started)
         IN  IF dc.error # "" THEN <<Error("", dc.error)>>
             ELSE IF ds.error # "" THEN <<Error("", ds.error)>>
             ELSE IF dc.ordinal > ds.ordinal
                     \/ (dc.ordinal = ds.ordinal /\ dc.minutes > ds.minutes)
                  THEN <<>>
                  ELSE <<Error("", DateOrderMsg)>>
    ELSE <<>>

\* Book.validate_date_completed (mode="after"): the errors it adds.  A
\* ValueError of fromisoformat is reported like the validator's own.
validate_date_completed(date_started, date_completed) ==
    IF date_started # <<>> /\ date_completed # <<>>
    THEN LET dc == fromisoformat(date_completed)
             ds == fromisoformat(date_started)
         IN  IF dc.error # "" THEN <<Error("", dc.error)>>
             ELSE IF ds.error # "" THEN <<Error("", ds.error)>>
             ELSE IF dc.ordinal > ds.ordinal
                     \/ (dc.ordinal = ds.ordinal /\ dc.minutes >= ds.minutes)
                  THEN <<>>
                  ELSE <<Error("", DateOrderMsg)>>
    ELSE <<>>

\* Book(status=..., date_started=..., date_completed=...): pydantic validates
\* the fields in the order of their declaration and reports all their errors;
\* the model validator runs when no field has failed.
Book(status, date_started, date_completed) ==
    LET field_errors == (IF status = Unset THEN <<>> ELSE validate_status(status))
                        \o validate_date("date_started", date_started)
                        \o validate_date("date_completed", date_completed)
        model_errors == validate_date_completed(date_started, date_completed)
        failed(errors) == [raised |-> "ValidationError", errors |-> errors, out |-> <<>>]
    IN  IF field_errors # <<>> THEN failed(field_errors)
        ELSE IF model_errors # <<>> THEN failed(model_errors)
        ELSE [raised |-> "", errors |-> <<>>,
              out |-> [status         |-> IF status = Unset THEN StatusDefault ELSE status,
                       date_started   |-> date_started,
                       date_completed |-> date_completed]]

\* datetime.strptime(s, "%Y-%m-%d") on a string that starts with dddd-dd-dd:
\* the whole string must be the date.  [error, ordinal].
strptime(s) ==
    LET y == IntOf(SubSeq(s, 1, 4))
        m == IntOf(SubSeq(s, 6, 7))
        d == IntOf(SubSeq(s, 9, 10))
    IN  IF Len(s) > 10 THEN [error |-> "unconverted data remains", ordinal |-> 0]
        ELSE IF y = 0 \/ m \notin 1..12 \/ d = 0
             THEN [error |-> "time data does not match format", ordinal |-> 0]
        ELSE IF d > DaysInMonth(y, m)
             THEN [error |-> "day is out of range for month", ordinal |-> 0]
        ELSE [error |-> "", ordinal |-> Ordinal(Date(y, m, d))]

\* Book.days_to_read of a book with these date strings: [raised, out].
days_to_read(date_started, date_completed) ==
    IF date_started # <<>> /\ date_completed # <<>>
    THEN LET ds == strptime(date_started)
             dc == strptime(date_completed)
         IN  IF ds.error # "" \/ dc.error # ""
             THEN [raised |-> "ValueError", out |-> Empty]
             ELSE [raised |-> "", out |-> Num(dc.ordinal - ds.ordinal + 1)]
    ELSE [raised |-> "", out |-> Empty]

(***************************************************************************)
(* The book as the engine reads it: status, author, date_completed as a    *)
(* date with its year and month, and days_to_read.                         *)
(***************************************************************************)
MakeBook(status, author, date_started, date_completed) ==
    [status         |-> status,
     author         |-> author,
     date_started   |-> date_started,
     date_completed |-> date_completed,
     days_to_read   |-> days_to_read(isoformat(date_started),
                                     isoformat(date_completed)).out]

(***************************************************************************)
(* BookStats                                                               *)
(***************************************************************************)
\* A slip in _get_ymd: the status of the book is not looked at.
get_ymd_any_status(book) ==
    IF book.date_completed # NoDate
    THEN <<book.date_completed.year, book.date_completed.month, book.days_to_read>>
    ELSE <<0, 0, Num(0)>>

\* BookStats._get_ymd: (year, month, days_to_read) of a completed book.
get_ymd(book) ==
    IF book.status = "COMPLETED" /\ book.date_completed # NoDate
    THEN <<book.date_completed.year, book.date_completed.month, book.days_to_read>>
    ELSE <<0, 0, Num(0)>>

\* BookStats.__init__: self.ymd
ymd_of(bs) == SelectSeq(MapSeq(bs, get_ymd), LAMBDA t : t[1] # 0)

\* BookStats.month_stats
month_stats(ymd, year, month) ==
    LET books_read == SelectSeq(ymd, LAMBDA book : book[1] = year /\ book[2] = month)
        books_w_avg_days_to_read == MapSeq(books_read, LAMBDA book : book[3])
        count == Len(books_read)
        avg_days_to_read ==
            IF books_read # <<>>
            THEN IF \A i \in 1..count : Truthy(books_w_avg_days_to_read[i])
                 THEN Num(RoundMean(MapSeq(books_w_avg_days_to_read, LAMBDA x : x.v)))
                 ELSE Empty
            ELSE Empty
    IN  [year             |-> year,
         month            |-> month,
         count            |-> count,
         per_week         |-> Round2(count * 10000, 43363),
         avg_days_to_read |-> avg_days_to_read]


\* A call's outcome: the value returned, or the exception raised.
Returned(v) == [raised |-> "", out |-> v]

Raised(e) == [raised |-> e, out |-> <<>>]

\* A slip in months_with_books: the books of the year counted, not their months.
months_counting_books(ymd, year) ==
    Cardinality({j \in 1..Len(ymd) : ymd[j][1] = year})

\* len({book[1] for book in self.ymd if book[0] == year})
months_with_books(ymd, year) ==
    Cardinality({ymd[i][2] : i \in {j \in 1..Len(ymd) : ymd[j][1] = year}})

\* BookStats.year_stats; today is date.today() at the time of the call.
year_stats(ymd, year, today) ==
    LET books_read == SelectSeq(ymd, LAMBDA book : book[1] = year)
        count == Len(books_read)
        days == Ordinal(today) - Ordinal(Date(year, 1, 1))
        months == months_with_books(ymd, year)
        avgs == SelectSeq(MapSeq(books_read, LAMBDA book : book[3]), Truthy)
        avg_days_to_read ==
            IF avgs # <<>> THEN Num(RoundMean(MapSeq(avgs, LAMBDA x : x.v))) ELSE Empty
        row(books_per_month, books_per_week) ==
            [year             |-> year,
             count            |-> Num(count),
             per_month        |-> Num(books_per_month),
             per_week         |-> Num(books_per_week),
             avg_days_to_read |-> avg_days_to_read]
    IN  IF books_read # <<>>
        THEN IF year = today.year
             THEN IF days = 0
                  THEN Raised("ZeroDivisionError")
                  ELSE Returned(row(Round2(count * 36425, days * 1200),
                                    Round2(count * 7, days)))
             ELSE Returned(row(Round2(count, months),
                               Round2(count * 100, months * 433)))
        ELSE Returned([year             |-> year,
                       count            |-> Empty,
                       per_month        |-> Empty,
                       per_week         |-> Empty,
                       avg_days_to_read |-> Empty])

\* A slip in the sort: reverse=True left out, the smallest key comes first.
SortedForward(xs, keys) ==
    LET n == Len(xs)
        before(i) == {j \in 1..n : \/ keys[j] < keys[i]
                                   \/ keys[j] = keys[i] /\ j < i}
    IN  [p \in 1..n |-> xs[CHOOSE i \in 1..n : Cardinality(before(i)) = p - 1]]

(***************************************************************************)
(* sorted(xs, key=..., reverse=True), keys[i] being the key of xs[i]:      *)
(* Python's sort is stable, also under reverse=True, so an element comes   *)
(* after every element with a greater key and after the earlier elements   *)
(* with the same key.                                                      *)
(***************************************************************************)
SortedReverse(xs, keys) ==
    LET n == Len(xs)
        before(i) == {j \in 1..n : \/ keys[j] > keys[i]
                                   \/ keys[j] = keys[i] /\ j < i}
    IN  [p \in 1..n |-> xs[CHOOSE i \in 1..n : Cardinality(before(i)) = p - 1]]

\* The elements of a set of integers as a list (Python iterates a set in an
\* order of its own; every use below sorts the list on distinct keys).
RECURSIVE ListOf(_)
ListOf(S) ==
    IF S = {} THEN <<>>
    ELSE LET x == CHOOSE y \in S : \A z \in S : y <= z
         IN  <<x>> \o ListOf(S \ {x})

\* Python orders the tuples (year, month) lexicographically; with month in
\* 1..12 that is the order of year * 12 + month.
YMKey(year, month) == year * 12 + month

YMOfKey(k) == <<(k - 1) \div 12, ((k - 1) % 12) + 1>>

\* BookStats.monthly_stats
monthly_stats(ymd) ==
    LET yms == {YMKey(ymd[i][1], ymd[i][2]) : i \in 1..Len(ymd)}
        years == {ymd[i][1] : i \in 1..Len(ymd)}
        monthly == MapSeq(ListOf(yms),
                          LAMBDA k : month_stats(ymd, YMOfKey(k)[1], YMOfKey(k)[2]))
        all_years_months == {YMKey(y, m) : y \in years, m \in 1..12}
        min_yms == CHOOSE k \in yms : \A z \in yms : k <= z
        max_yms == CHOOSE k \in yms : \A z \in yms : k >= z
        missing == {i \in all_years_months : min_yms < i /\ i < max_yms /\ i \notin yms}
        appended == MapSeq(ListOf(missing),
                           LAMBDA k : [year     |-> YMOfKey(k)[1],
                                       month    |-> YMOfKey(k)[2],
                                       per_week |-> 0,
                                       count    |-> 0,
                                       avg_dtr  |-> Empty])
        rows == monthly \o appended
    IN  SortedReverse(rows, MapSeq(rows, LAMBDA x : YMKey(x.year, x.month)))

\* BookStats.yearly_stats
yearly_stats(ymd, today) ==
    LET years == {ymd[i][1] : i \in 1..Len(ymd)}
        calls == MapSeq(ListOf(years), LAMBDA year : year_stats(ymd, year, today))
    IN  IF \E i \in 1..Len(calls) : calls[i].raised # ""
        THEN Raised(calls[CHOOSE i \in 1..Len(calls) : calls[i].raised # ""].raised)
        ELSE Returned(SortedReverse(MapSeq(calls, LAMBDA c : c.out),
                                    MapSeq(calls, LAMBDA c : c.out.year)))

\* BookStats._get_max_year
get_max_year(ymd, today) ==
    LET stats == yearly_stats(ymd, today)
        stats_available == stats.out # <<>>
    IN  IF stats.raised # "" THEN Raised(stats.raised)
        ELSE IF stats_available
        THEN LET max_year == SortedReverse(stats.out, MapSeq(stats.out, LAMBDA x : x.count.v))[1]
             IN  Returned(<<max_year.year, max_year.count.v>>)
        ELSE Returned(<<0, 0>>)

\* A slip in _get_max_year_month: sorted ascending and the last entry taken,
\* which among the months with the greatest count is the earliest one.
get_max_year_month_last(ymd) ==
    LET stats == monthly_stats(ymd)
        stats_available == stats # <<>>
    IN  IF stats_available
        THEN LET max_year_month ==
                     SortedForward(stats, MapSeq(stats, LAMBDA x : x.count))[Len(stats)]
             IN  <<max_year_month.year, max_year_month.month, max_year_month.count>>
        ELSE <<0, 0, 0>>

\* BookStats._get_max_year_month
get_max_year_month(ymd) ==
    LET stats == monthly_stats(ymd)
        stats_available == stats # <<>>
    IN  IF stats_available
        THEN LET max_year_month == SortedReverse(stats, MapSeq(stats, LAMBDA x : x.count))[1]
             IN  <<max_year_month.year, max_year_month.month, max_year_month.count>>
        ELSE <<0, 0, 0>>

\* EditableDeletableScreen.on_data_table_row_selected on the row (year,
\* month) of the monthly stats table: the books handed to MonthlyBookScreen,
\* which lists them under the title "... len(books) Books Read"; no screen
\* is pushed for an empty list.
on_data_table_row_selected(bs, year, month) ==
    SelectSeq(bs, LAMBDA book : /\ book.date_completed # NoDate
                                /\ book.date_completed.year = year
                                /\ book.date_completed.month = month)

\* The n of author_count.most_common(n).
TopAuthorsLimit == 20

\* Counter(xs): the distinct elements of xs in the order of their first
\* occurrence (a Counter is a dict and keeps insertion order), each with the
\* number of its occurrences.
Counter(xs) ==
    LET first == {i \in 1..Len(xs) : \A j \in 1..(i - 1) : xs[j] # xs[i]}
    IN  MapSeq(ListOf(first),
               LAMBDA i : <<xs[i], Cardinality({j \in 1..Len(xs) : xs[j] = xs[i]})>>)

\* Counter.most_common(n) is heapq.nlargest(n, items, key=count), which is
\* sorted(items, key=count, reverse=True)[:n].
most_common(counter, n) ==
    LET ordered == SortedReverse(counter, MapSeq(counter, LAMBDA e : e[2]))
    IN  SubSeq(ordered, 1, IF Len(ordered) < n THEN Len(ordered) ELSE n)

\* A slip in _get_top_authors: only the COMPLETED books are counted, as in
\* the other statistics.
get_top_authors_completed(bs) ==
    LET authors == SelectSeq(MapSeq(SelectSeq(bs, LAMBDA book : book.status = "COMPLETED"),
                                    LAMBDA book : book.author),
                             LAMBDA author : author # "")
        author_count == Counter(authors)
    IN  most_common(author_count, TopAuthorsLimit)

\* BookStats._get_top_authors; it reads self.books, the books of any status.
get_top_authors(bs) ==
    LET authors == SelectSeq(MapSeq(bs, LAMBDA book : book.author),
                             LAMBDA author : author # "")
        author_count == Counter(authors)
    IN  most_common(author_count, TopAuthorsLimit)

(***************************************************************************)
(* The engine as a state machine: the catalogue passed to BookStats(books) *)
(* and the last call made on the engine with its outcome.                  *)
(***************************************************************************)
\* Completion dates of the catalogue: two months of one year with a month
\* between them, and a month two calendar years earlier.
CompletedDates == {Date(2022, 11, 20), Date(2024, 1, 5), Date(2024, 3, 10)}

\* date_started, when set, in days before date_completed.
StartedBefore == {0, 1}

\* Values of date.today(): 1 January and a later day of a year of the
\* catalogue, and a day of a later year.
Todays == {Date(2024, 1, 1), Date(2024, 1, 5), Date(2025, 2, 1)}

ArgYears == {2022, 2023, 2024}

ArgMonths == 1..12

RECURSIVE DaysEarlier(_, _)
DaysEarlier(d, n) ==
    IF n = 0 THEN d
    ELSE IF d.day > 1 THEN DaysEarlier(Date(d.year, d.month, d.day - 1), n - 1)
    ELSE IF d.month > 1
         THEN DaysEarlier(Date(d.year, d.month - 1, DaysInMonth(d.year, d.month - 1)), n - 1)
         ELSE DaysEarlier(Date(d.year - 1, 12, 31), n - 1)

Idle == [op |-> "", year |-> 0, month |-> 0, today |-> NoDate,
         raised |-> "", out |-> <<>>]

Call(op, year, month, today, res) ==
    [op |-> op, year |-> year, month |-> month, today |-> today,
     raised |-> res.raised, out |-> res.out]

Init ==
    /\ books = <<>>
    /\ ret = Idle

\* A book of the catalogue: Book.load_books builds the list BookStats gets.
\* The books are valid records: date_started is not after date_completed.
LoadBook ==
    /\ ret = Idle
    /\ Len(books) < MaxBooks
    /\ \E status \in Status, dc \in CompletedDates \cup {NoDate},
          started \in BOOLEAN, back \in StartedBefore :
          LET ds == IF started /\ dc # NoDate THEN DaysEarlier(dc, back) ELSE NoDate
          IN  books' = Append(books, MakeBook(status, "", ds, dc))
    /\ UNCHANGED ret

MonthStats ==
    /\ ret = Idle
    /\ \E year \in ArgYears, month \in ArgMonths :
          ret' = Call("month_stats", year, month, NoDate,
                      Returned(month_stats(ymd_of(books), year, month)))
    /\ UNCHANGED books

YearStats ==
    /\ ret = Idle
    /\ \E year \in ArgYears, today \in Todays :
          ret' = Call("year_stats", year, 0, today,
                      year_stats(ymd_of(books), year, today))
    /\ UNCHANGED books

MonthlyStats ==
    /\ ret = Idle
    /\ ret' = Call("monthly_stats", 0, 0, NoDate, Returned(monthly_stats(ymd_of(books))))
    /\ UNCHANGED books

YearlyStats ==
    /\ ret = Idle
    /\ \E today \in Todays :
          ret' = Call("yearly_stats", 0, 0, today, yearly_stats(ymd_of(books), today))
    /\ UNCHANGED books

MaxYear ==
    /\ ret = Idle
    /\ \E today \in Todays :
          ret' = Call("_get_max_year", 0, 0, today, get_max_year(ymd_of(books), today))
    /\ UNCHANGED books

MaxYearMonth ==
    /\ ret = Idle
    /\ ret' = Call("_get_max_year_month", 0, 0, NoDate,
                   Returned(get_max_year_month(ymd_of(books))))
    /\ UNCHANGED books

\* A row of the monthly stats table, which shows monthly_stats(), is selected.
RowSelected ==
    /\ ret = Idle
    /\ \E p \in 1..Len(monthly_stats(ymd_of(books))) :
          LET row == monthly_stats(ymd_of(books))[p]
          IN  ret' = Call("on_data_table_row_selected", row.year, row.month, NoDate,
                          Returned(on_data_table_row_selected(books, row.year, row.month)))
    /\ UNCHANGED books

\* The caller has taken the outcome of the call (the engine is synchronous:
\* one call at a time).
Return ==
    /\ ret # Idle
    /\ ret' = Idle
    /\ UNCHANGED books

Next ==
    \/ LoadBook
    \/ MonthStats
    \/ YearStats
    \/ MonthlyStats
    \/ YearlyStats
    \/ MaxYear
    \/ MaxYearMonth
    \/ RowSelected
    \/ Return

Spec == Init /\ [][Next]_vars

(***************************************************************************)
(* What the statements below speak of, taken from the catalogue itself and *)
(* not from the engine's working list.                                     *)
(***************************************************************************)
\* The books the statistics are about: COMPLETED with a completion date.
Filtered(bs) ==
    {i \in 1..Len(bs) : bs[i].status = "COMPLETED" /\ bs[i].date_completed # NoDate}

CompletedInYear(bs, year) ==
    {i \in Filtered(bs) : bs[i].date_completed.year = year}

CompletedInMonth(bs, year, month) ==
    {i \in CompletedInYear(bs, year) : bs[i].date_completed.month = month}

ActiveMonths(bs) ==
    {YMKey(bs[i].date_completed.year, bs[i].date_completed.month) : i \in Filtered(bs)}

MonthsOfYear(bs, year) ==
    {bs[i].date_completed.month : i \in CompletedInYear(bs, year)}

WithDays(bs, S) == {i \in S : ~bs[i].days_to_read.empty}

RECURSIVE SumDays(_, _)
SumDays(bs, S) ==
    IF S = {} THEN 0
    ELSE LET i == CHOOSE j \in S : TRUE
         IN  bs[i].days_to_read.v + SumDays(bs, S \ {i})

DaysElapsed(today) == Ordinal(today) - Ordinal(Date(today.year, 1, 1))

\* C1: monthly_stats() has no gaps: every calendar month strictly between the
\* earliest and the latest active month is in the report exactly once, the
\* months of a year without any completed book included.
C1_NoGaps ==
    ret.op = "monthly_stats" =>
        \A M1, M2 \in ActiveMonths(books) :
            \A k \in (M1 + 1)..(M2 - 1) :
                Cardinality({p \in 1..Len(ret.out) :
                               YMKey(ret.out[p].year, ret.out[p].month) = k}) = 1

\* C2: no engine operation raises, whatever the catalogue and today's date.
C2_NeverRaises == ret.raised = ""

\* C3: in the current year, after 1 January, per_month is
\* round((count / days_elapsed) * (365.25 / 12), 2) and per_week is
\* round((count / days_elapsed) * 7, 2).
C3_CurrentYearPace ==
    LET count == Cardinality(CompletedInYear(books, ret.year))
        days == DaysElapsed(ret.today)
    IN  (/\ ret.op = "year_stats"
         /\ ret.year = ret.today.year
         /\ count >= 1
         /\ days > 0)
        => /\ ret.raised = ""
           /\ ret.out.per_month = Num(Round2(count * 36525, days * 1200))
           /\ ret.out.per_week = Num(Round2(count * 7, days))

\* C4: month_stats(year, month).avg_days_to_read is empty when no filtered
\* book was completed in the month, and is the rounded mean of the
\* days_to_read of the month's books as soon as one of them has one.
C4_MonthAverage ==
    LET S == CompletedInMonth(books, ret.year, ret.month)
        D == WithDays(books, S)
    IN  ret.op = "month_stats" =>
            /\ S = {} => ret.out.avg_days_to_read = Empty
            /\ D # {} => ret.out.avg_days_to_read
                             = Num(Round2(SumDays(books, D), Cardinality(D)))

\* C5: for a year without a filtered book, year_stats(year) has count = 0 and
\* per_month, per_week and avg_days_to_read empty.
C5_EmptyYear ==
    (ret.op = "year_stats" /\ CompletedInYear(books, ret.year) = {})
        => /\ ret.raised = ""
           /\ ret.out.count = Num(0)
           /\ ret.out.per_month = Empty
           /\ ret.out.per_week = Empty
           /\ ret.out.avg_days_to_read = Empty

\* C9: month_stats(year, month).count is the number of books that are
\* COMPLETED with a completion date in that month, and per_week is
\* round(count / 4.3363, 2), which is 0 when count is 0.
C9_MonthCount ==
    LET count == Cardinality(CompletedInMonth(books, ret.year, ret.month))
    IN  ret.op = "month_stats" =>
            /\ ret.out.count = count
            /\ ret.out.per_week = Round2(count * 10000, 43363)
            /\ count = 0 => ret.out.per_week = 0

\* A month counted with a book in it that is not COMPLETED and one that is.
C9_Witness ==
    /\ ret.op = "month_stats"
    /\ ret.out.count = 1
    /\ ret.out.per_week = 23
    /\ \E i \in 1..Len(books) :
          /\ books[i].status # "COMPLETED"
          /\ books[i].date_completed.year = ret.year
          /\ books[i].date_completed.month = ret.month

\* C10: for a year other than today's with count >= 1 books completed in d
\* distinct months, per_month is round(count / d, 2) and per_week is
\* round(count / (d * 4.33), 2).
C10_PastYearPace ==
    LET count == Cardinality(CompletedInYear(books, ret.year))
        d == Cardinality(MonthsOfYear(books, ret.year))
    IN  (/\ ret.op = "year_stats"
         /\ ret.year # ret.today.year
         /\ count >= 1)
        => /\ ret.raised = ""
           /\ ret.out.count = Num(count)
           /\ ret.out.per_month = Num(Round2(count, d))
           /\ ret.out.per_week = Num(Round2(count * 100, d * 433))

\* Two books completed in one month of a past year: per_month is 2.0.
C10_Witness ==
    /\ ret.op = "year_stats"
    /\ ret.year # ret.today.year
    /\ Cardinality(CompletedInYear(books, ret.year)) = 2
    /\ Cardinality(MonthsOfYear(books, ret.year)) = 1
    /\ ret.out.per_month = Num(200)
    /\ ret.out.per_week = Num(46)

\* C11: for every year with at least one filtered book, year_stats(year)
\* returns a row whose avg_days_to_read is the mean, rounded to two decimals,
\* of the days_to_read of the year's books that have one, and is empty
\* exactly when none of them has one.
C11_YearAverage ==
    LET S == CompletedInYear(books, ret.year)
        D == WithDays(books, S)
    IN  (ret.op = "year_stats" /\ S # {})
        => /\ ret.raised = ""
           /\ D # {} => ret.out.avg_days_to_read
                            = Num(Round2(SumDays(books, D), Cardinality(D)))
           /\ D = {} <=> ret.out.avg_days_to_read = Empty

\* The field names of an entry of the monthly report.
MonthFields == {"year", "month", "count", "per_week", "avg_days_to_read"}

\* C12: every entry of monthly_stats(), real or synthetic, has exactly the
\* fields year, month, count, per_week and avg_days_to_read, and a synthetic
\* entry (a month without a filtered book) carries count = 0, per_week = 0
\* and an empty avg_days_to_read under those names.
C12_MonthlyFields ==
    ret.op = "monthly_stats" =>
        \A p \in 1..Len(ret.out) :
            LET entry == ret.out[p]
                synthetic == YMKey(entry.year, entry.month) \notin ActiveMonths(books)
            IN  /\ DOMAIN entry = MonthFields
                /\ synthetic => /\ entry.count = 0
                                /\ entry.per_week = 0
                                /\ entry.avg_days_to_read = Empty

\* C13: monthly_stats() is sorted strictly descending by (year, month), so
\* that no month is there twice; no entry is earlier than the earliest or
\* later than the latest active month; and every entry with count = 0 is a
\* synthetic one, of a month without a filtered book, strictly between them.
C13_MonthlyOrder ==
    ret.op = "monthly_stats" =>
        LET out == ret.out
            key(p) == YMKey(out[p].year, out[p].month)
            active == ActiveMonths(books)
        IN  /\ \A p \in 1..(Len(out) - 1) : key(p) > key(p + 1)
            /\ \A p \in 1..Len(out) :
                  /\ \E a \in active : a <= key(p)
                  /\ \E a \in active : key(p) <= a
                  /\ out[p].count = 0 =>
                        /\ key(p) \notin active
                        /\ \E a \in active : a < key(p)
                        /\ \E a \in active : key(p) < a

\* Books completed in January and in March 2024: the report is March with
\* its book, the synthetic February, January with its book.
C13_Witness ==
    /\ ret.op = "monthly_stats"
    /\ ActiveMonths(books) = {YMKey(2024, 1), YMKey(2024, 3)}
    /\ Len(ret.out) = 3
    /\ ret.out[1].month = 3 /\ ret.out[1].count = 1
    /\ ret.out[2].month = 2 /\ ret.out[2].count = 0
    /\ ret.out[3].month = 1 /\ ret.out[3].count = 1

\* The years in which a filtered book was completed.
ActiveYears(bs) == {bs[i].date_completed.year : i \in Filtered(bs)}

\* C14: yearly_stats() returns exactly one entry for each year with a
\* filtered book and none for any other year, sorted strictly descending by
\* year, and each entry is what year_stats returns for its year.
C14_YearlyReport ==
    ret.op = "yearly_stats" =>
        /\ ret.raised = ""
        /\ {ret.out[p].year : p \in 1..Len(ret.out)} = ActiveYears(books)
        /\ \A p \in 1..(Len(ret.out) - 1) : ret.out[p].year > ret.out[p + 1].year
        /\ \A p \in 1..Len(ret.out) :
              Returned(ret.out[p]) = year_stats(ymd_of(books), ret.out[p].year, ret.today)

\* C15: _get_max_year() returns (year, count) with count the greatest count
\* of a year of the yearly report and, among the years with that count, the
\* most recent year; it returns (0, 0) when no book of the catalogue is
\* COMPLETED with a completion date.
C15_BestYear ==
    ret.op = "_get_max_year" =>
        /\ ret.raised = ""
        /\ LET years == ActiveYears(books)
               count(y) == Cardinality(CompletedInYear(books, y))
           IN  IF years = {} THEN ret.out = <<0, 0>>
               ELSE /\ ret.out[1] \in years
                    /\ ret.out[2] = count(ret.out[1])
                    /\ \A y \in years : count(y) <= ret.out[2]
                    /\ \A y \in years : count(y) = ret.out[2] => y <= ret.out[1]

C22_DrillDownCount ==
    ret.op = "on_data_table_row_selected" =>
        /\ Len(ret.out) = month_stats(ymd_of(books), ret.year, ret.month).count
        /\ Len(ret.out) = Cardinality(CompletedInMonth(books, ret.year, ret.month))
        /\ \A p \in 1..Len(ret.out) : ret.out[p].status = "COMPLETED"

(***************************************************************************)
(* The authors of the catalogue: BookStats is built on a catalogue that is *)
(* empty or already holds one book by each of TopAuthorsLimit + 1 authors, *)
(* further books are loaded, and _get_top_authors is called.               *)
(***************************************************************************)
AuthorNames == <<"a", "b", "c", "d", "e", "f", "g", "h", "i", "j", "k",
                 "l", "m", "n", "o", "p", "q", "r", "s", "t", "u", "v">>

StatusOf(i) == IF i % 3 = 0 THEN "TBR" ELSE IF i % 3 = 1 THEN "COMPLETED" ELSE "IN_PROGRESS"

\* One book by each of the first TopAuthorsLimit + 1 authors.
Shelf == [i \in 1..(TopAuthorsLimit + 1) |-> MakeBook(StatusOf(i), AuthorNames[i], NoDate, NoDate)]

\* Authors of the books loaded later: none, the first and the last author
\* of the shelf, and an author the shelf does not have.
AuthorInputs == {"", AuthorNames[1], AuthorNames[TopAuthorsLimit + 1],
                 AuthorNames[TopAuthorsLimit + 2]}

InitAuthors ==
    /\ books \in {<<>>, Shelf}
    /\ ret = Idle

LoadAuthorBook ==
    /\ ret = Idle
    /\ \/ Len(books) < MaxBooks
       \/ Len(books) >= Len(Shelf) /\ Len(books) < Len(Shelf) + MaxBooks
    /\ \E status \in Status, author \in AuthorInputs :
          books' = Append(books, MakeBook(status, author, NoDate, NoDate))
    /\ UNCHANGED ret

TopAuthors ==
    /\ ret = Idle
    /\ ret' = Call("_get_top_authors", 0, 0, NoDate, Returned(get_top_authors(books)))
    /\ UNCHANGED books

NextAuthors ==
    \/ LoadAuthorBook
    \/ TopAuthors
    \/ Return

SpecAuthors == InitAuthors /\ [][NextAuthors]_vars

\* C17: _get_top_authors() returns at most TopAuthorsLimit pairs (author,
\* count): count is the number of books of any status with that non-empty
\* author, the pairs are the first ones of the order "greater count first,
\* among equal counts the author met first in the catalogue first" (each
\* pair is ahead of the next, and the last one ahead of every author left
\* out), and a book without an author is never counted.
C17_TopAuthors ==
    ret.op = "_get_top_authors" =>
        LET named == {i \in 1..Len(books) : books[i].author # ""}
            authors == {books[i].author : i \in named}
            count(a) == Cardinality({i \in named : books[i].author = a})
            earlier(a, b) == \E i \in named : /\ books[i].author = a
                                              /\ \A j \in 1..i : books[j].author # b
            ahead(a, b) == \/ count(a) > count(b)
                           \/ count(a) = count(b) /\ earlier(a, b)
            listed == {ret.out[p][1] : p \in 1..Len(ret.out)}
        IN  /\ ret.raised = ""
            /\ Len(ret.out) = (IF Cardinality(authors) < TopAuthorsLimit
                               THEN Cardinality(authors) ELSE TopAuthorsLimit)
            /\ listed \subseteq authors
            /\ \A p \in 1..Len(ret.out) : ret.out[p][2] = count(ret.out[p][1])
            /\ \A p \in 1..(Len(ret.out) - 1) : ahead(ret.out[p][1], ret.out[p + 1][1])
            /\ \A a \in authors \ listed : ahead(ret.out[Len(ret.out)][1], a)

\* The shelf and a second book, with status TBR, by its last author: more
\* authors than the limit, the last author of the shelf comes first with
\* two books, and the twentieth author has dropped out of the list.
C17_Witness ==
    /\ ret.op = "_get_top_authors"
    /\ Len(books) = Len(Shelf) + 1
    /\ books[Len(books)].status = "TBR"
    /\ Len(ret.out) = TopAuthorsLimit
    /\ ret.out[1] = <<AuthorNames[TopAuthorsLimit + 1], 2>>
    /\ ret.out[2] = <<AuthorNames[1], 1>>
    /\ \A p \in 1..Len(ret.out) : ret.out[p][1] # AuthorNames[TopAuthorsLimit]

(***************************************************************************)
(* The book record as a state machine: a Book is constructed from field    *)
(* values (as the add and edit forms and load_books do), and the computed  *)
(* field days_to_read of a constructed book is read.                       *)
(***************************************************************************)
\* Dates of the field values: the end of a year, and the days around the
\* 29th of February of a leap year.
FieldDates == {Date(2023, 12, 31), Date(2024, 2, 28), Date(2024, 3, 1)}

\* Strings that are not a date YYYY-MM-DD: another separator, no date at
\* all, text after or before the date, a time after the date, months and
\* days without the leading zero, and strings of the right shape that are
\* no calendar date.
NotDates ==
    {<<"2", "0", "2", "4", "/", "0", "3", "/", "0", "1">>,
     <<"n", "o">>,
     isoformat(Date(2024, 3, 1)) \o <<"x">>,
     <<"x">> \o isoformat(Date(2024, 3, 1)),
     isoformat(Date(2024, 3, 1)) \o <<"T", "0", "5">>,
     <<"2", "0", "2", "4", "-", "3", "-", "1">>,
     <<"2", "0", "2", "4", "-", "1", "3", "-", "0", "1">>,
     <<"2", "0", "2", "3", "-", "0", "2", "-", "2", "9">>}

DateInputs == {<<>>} \cup {isoformat(d) : d \in FieldDates} \cup NotDates

\* "TB" is the status of test_book_invalid_status, "tbr" a member in another
\* case; Unset: no status is passed.
StatusInputs == Status \cup {"TB", "tbr", Unset}

NewBook ==
    /\ ret = Idle
    /\ \E status \in StatusInputs, date_started \in DateInputs,
          date_completed \in DateInputs :
          LET res == Book(status, date_started, date_completed)
          IN  ret' = [op             |-> "Book",
                      status         |-> status,
                      date_started   |-> date_started,
                      date_completed |-> date_completed,
                      raised         |-> res.raised,
                      errors         |-> res.errors,
                      out            |-> res.out]
    /\ UNCHANGED books

\* book.days_to_read of the book just constructed.
DaysToRead ==
    /\ ret.op = "Book"
    /\ ret.raised = ""
    /\ LET res == days_to_read(ret.out.date_started, ret.out.date_completed)
       IN  ret' = [op     |-> "days_to_read",
                   book   |-> ret.out,
                   raised |-> res.raised,
                   out    |-> res.out]
    /\ UNCHANGED books

NextBook ==
    \/ NewBook
    \/ DaysToRead
    \/ Return

SpecBook == Init /\ [][NextBook]_vars

\* The string is exactly four digits, a hyphen, two digits, a hyphen and two
\* digits.
IsYYYYMMDD(value) ==
    /\ Len(value) = 10
    /\ \A i \in {1, 2, 3, 4, 6, 7, 9, 10} : IsDigit(value[i])
    /\ value[5] = "-"
    /\ value[8] = "-"

\* The string is YYYY-MM-DD and names a day of the calendar.
IsDateString(value) ==
    /\ IsYYYYMMDD(value)
    /\ IsCalendarDate(IntOf(SubSeq(value, 1, 4)), IntOf(SubSeq(value, 6, 7)),
                      IntOf(SubSeq(value, 9, 10)))

\* The day number of the date a string starts with.
DayOf(value) ==
    Ordinal(Date(IntOf(SubSeq(value, 1, 4)), IntOf(SubSeq(value, 6, 7)),
                 IntOf(SubSeq(value, 9, 10))))

\* C6: a Book is not constructed from a non-empty date_started or
\* date_completed that is not exactly YYYY-MM-DD, whichever field has it and
\* whatever the other date is (the weakest reading: the construction fails).
C6_MalformedDateRejected ==
    (/\ ret.op = "Book"
     /\ \E value \in {ret.date_started, ret.date_completed} :
           value # <<>> /\ ~IsYYYYMMDD(value))
    => ret.raised = "ValidationError"

\* C7: with a valid status and both dates given as YYYY-MM-DD strings of
\* calendar dates, the construction fails with the date-order error when
\* date_completed < date_started and succeeds otherwise (equal dates too);
\* every constructed Book with both dates has date_completed >= date_started.
C7_DateOrder ==
    ret.op = "Book" =>
        /\ (/\ ret.status \in Status
            /\ IsDateString(ret.date_started)
            /\ IsDateString(ret.date_completed))
           => IF DayOf(ret.date_completed) < DayOf(ret.date_started)
              THEN /\ ret.raised = "ValidationError"
                   /\ ret.errors = <<Error("", DateOrderMsg)>>
              ELSE /\ ret.raised = ""
                   /\ ret.out.date_started = ret.date_started
                   /\ ret.out.date_completed = ret.date_completed
        /\ (/\ ret.raised = ""
            /\ ret.out.date_started # <<>>
            /\ ret.out.date_completed # <<>>)
           => DayOf(ret.out.date_completed) >= DayOf(ret.out.date_started)

\* A book started and completed on the same day is constructed.
C7_Witness ==
    /\ ret.op = "Book"
    /\ ret.raised = ""
    /\ IsDateString(ret.date_started)
    /\ ret.date_completed = ret.date_started

\* C8: days_to_read of a constructed Book is the days from date_started to
\* date_completed plus 1 (at least 1) when both dates are set, and absent
\* when one of them is not.
C8_DaysToRead ==
    ret.op = "days_to_read" =>
        /\ ret.raised = ""
        /\ IF ret.book.date_started # <<>> /\ ret.book.date_completed # <<>>
           THEN /\ ret.out = Num(DayOf(ret.book.date_completed)
                                 - DayOf(ret.book.date_started) + 1)
                /\ ret.out.v >= 1
           ELSE ret.out = Empty

\* C18: the construction of a Book fails with a validation error on status
\* for every status passed that is not a member of the enumeration, and
\* every constructed Book has a status of the enumeration: the one passed,
\* or TBR when none was passed.
C18_StatusValidated ==
    ret.op = "Book" =>
        /\ (ret.status # Unset /\ ret.status \notin Status)
           => /\ ret.raised = "ValidationError"
              /\ \E i \in 1..Len(ret.errors) : ret.errors[i] = Error("status", StatusMsg)
        /\ ret.raised = ""
           => /\ ret.out.status \in Status
              /\ ret.out.status = IF ret.status = Unset THEN "TBR" ELSE ret.status

\* Book(status="TB") as in test_book_invalid_status: the one error is the
\* error on status.
C18_Witness ==
    /\ ret.op = "Book"
    /\ ret.status = "TB"
    /\ ret.date_started = <<>>
    /\ ret.date_completed = <<>>
    /\ ret.errors = <<Error("status", StatusMsg)>>

\* The date fields of the construction whose string is not empty and not
\* exactly YYYY-MM-DD.
MalformedFields ==
    {loc \in {"date_started", "date_completed"} :
        LET value == IF loc = "date_started" THEN ret.date_started ELSE ret.date_completed
        IN  value # <<>> /\ ~IsYYYYMMDD(value)}

\* C19: the date format is validated first, then the status, then the order
\* of the dates: when a date string is malformed and the status is not a
\* member of the enumeration, the first error reported is the date-format
\* error naming a malformed date field; and the date-order error is
\* reported only when no date string is malformed and the status is valid.
C19_ValidationOrder ==
    ret.op = "Book" =>
        /\ (MalformedFields # {} /\ ret.status \notin Status \cup {Unset})
           => /\ ret.raised = "ValidationError"
              /\ ret.errors[1].msg = DateFormatMsg
              /\ ret.errors[1].loc \in MalformedFields
        /\ (\E i \in 1..Len(ret.errors) : ret.errors[i].msg = DateOrderMsg)
           => /\ MalformedFields = {}
              /\ ret.status \in Status \cup {Unset}

\* C20: every constructed Book holds in date_started and in date_completed
\* either no date or a real calendar date, and a string of the shape
\* YYYY-MM-DD that is no calendar date (month 13, 29 February of a common
\* year) is rejected at construction, also when it is the only date passed.
C20_CalendarDates ==
    ret.op = "Book" =>
        /\ ret.raised = ""
           => \A value \in {ret.out.date_started, ret.out.date_completed} :
                  value = <<>> \/ IsDateString(value)
        /\ (\E value \in {ret.date_started, ret.date_completed} :
                 IsYYYYMMDD(value) /\ ~IsDateString(value))
           => ret.raised = "ValidationError"

(***************************************************************************)
(* The add and edit forms as a state machine: books is the books table,    *)
(* its rows in the order of their id, and ret the last submission with the *)
(* outcome of its validation.                                              *)
(***************************************************************************)
\* The Select of the forms offers the member names of Status; two of them
\* are submitted here.
SubmitStatus == {"TBR", "COMPLETED"}

\* What is typed into the date inputs: nothing, a date, and for
\* date_started no date at all, for date_completed an earlier date.
SubmitStarted == {<<>>, isoformat(Date(2024, 3, 1)), <<"n", "o">>}

SubmitCompleted == {<<>>, isoformat(Date(2024, 2, 28)), isoformat(Date(2024, 3, 1))}

\* A row of the books table, of the columns the Book model validates.
Row(id, status, date_started, date_completed) ==
    [id |-> id, status |-> status, date_started |-> date_started,
     date_completed |-> date_completed]

\* A slip in book_submit_pressed: the INSERT not under the else of the try.
book_submit_pressed_always(rows, status, date_started, date_completed) ==
    LET res == Book(status, date_started, date_completed)
    IN  [raised |-> res.raised, errors |-> res.errors,
         rows   |-> Append(rows, Row(Len(rows) + 1, status, date_started, date_completed))]

\* BookAddScreen.book_submit_pressed: Book(**validation_dict), then on
\* ValidationError the errors are notified, else the values are inserted
\* (id INTEGER PRIMARY KEY AUTOINCREMENT).
book_submit_pressed(rows, status, date_started, date_completed) ==
    LET res == Book(status, date_started, date_completed)
    IN  [raised |-> res.raised, errors |-> res.errors,
         rows   |-> IF res.raised # "" THEN rows
                    ELSE Append(rows, Row(Len(rows) + 1, status, date_started,
                                          date_completed))]

\* BookEditScreen.edit_submit_pressed on the book rows[i]: validation, then
\* UPDATE books SET ... WHERE id = self.book.id.
edit_submit_pressed(rows, i, status, date_started, date_completed) ==
    LET res == Book(status, date_started, date_completed)
    IN  [raised |-> res.raised, errors |-> res.errors,
         rows   |-> IF res.raised # "" THEN rows
                    ELSE [rows EXCEPT ![i] = Row(rows[i].id, status, date_started,
                                                 date_completed)]]

Submission(op, id, status, date_started, date_completed, res) ==
    [op |-> op, id |-> id, status |-> status, date_started |-> date_started,
     date_completed |-> date_completed, raised |-> res.raised, errors |-> res.errors]

AddSubmit ==
    /\ ret = Idle
    /\ Len(books) < MaxBooks
    /\ \E status \in SubmitStatus, date_started \in SubmitStarted,
          date_completed \in SubmitCompleted :
          LET res == book_submit_pressed(books, status, date_started, date_completed)
          IN  /\ books' = res.rows
              /\ ret' = Submission("book_submit_pressed", 0, status, date_started,
                                   date_completed, res)

EditSubmit ==
    /\ ret = Idle
    /\ \E i \in 1..Len(books), status \in SubmitStatus, date_started \in SubmitStarted,
          date_completed \in SubmitCompleted :
          LET res == edit_submit_pressed(books, i, status, date_started, date_completed)
          IN  /\ books' = res.rows
              /\ ret' = Submission("edit_submit_pressed", books[i].id, status,
                                   date_started, date_completed, res)

NextStore ==
    \/ AddSubmit
    \/ EditSubmit
    \/ Return

SpecStore == Init /\ [][NextStore]_vars

\* The Book model accepts the values of the row.
Accepted(row) == Book(row.status, row.date_started, row.date_completed).raised = ""

\* C21: over any sequence of add and edit submissions, the books table
\* changes only in a submission whose values pass the validation of Book,
\* by the insertion of a row or the update of the edited row with those
\* values; a submission that fails the validation leaves the table as it
\* was; so every row of the table was accepted by Book when it was written.
C21_ValidatedWrites ==
    [][/\ books' # books
          => /\ ret'.op \in {"book_submit_pressed", "edit_submit_pressed"}
             /\ ret'.raised = ""
             /\ Accepted(ret')
             /\ \E i \in 1..Len(books') :
                   /\ books'[i] = Row(books'[i].id, ret'.status, ret'.date_started,
                                      ret'.date_completed)
                   /\ \A j \in 1..Len(books) : j # i => books'[j] = books[j]
                   /\ Len(books') = IF ret'.op = "book_submit_pressed"
                                    THEN Len(books) + 1 ELSE Len(books)
       /\ (/\ ret = Idle
           /\ ret'.op \in {"book_submit_pressed", "edit_submit_pressed"}
           /\ ret'.raised # "")
          => books' = books
       /\ \A i \in 1..Len(books') : Accepted(books'[i])]_vars

\* An edit of a stored book with date_completed before date_started has
\* failed with the date-order error, and the table still holds the row.
C21_Witness ==
    /\ ret.op = "edit_submit_pressed"
    /\ ret.raised = "ValidationError"
    /\ ret.errors = <<Error("", DateOrderMsg)>>
    /\ Len(books) = 1
    /\ books[1].id = ret.id
    /\ books[1].date_completed = <<>>

====
